---- MODULE Spec2Model ----
(***************************************************************************)
(* A model of package transaction of arnhemcr/financial: the CSV record    *)
(* format (CSVRecordFormat.Validate), the CSV transcoder (ParseCSV,        *)
(* StringModuleCSV), the amount parser (parseAmount) and the Ledger        *)
(* transcoder (ParseLedger, StringLedger), and of the programs that use    *)
(* it: translate (parseCSVStatement, stringTransactions) and mrglent       *)
(* (ledgerJournal.parse, demirror, sort).                                  *)
(*                                                                         *)
(* Text is a sequence of one-character strings, so that joining, splitting *)
(* and scanning are computed character by character as the Go code does.   *)
(* A float64 amount is the exact decimal [m, e] = m / 10^e, normalised so  *)
(* that m has no trailing zero digit when e > 0.  For decimal texts of at  *)
(* most 15 significant digits strconv.ParseFloat followed by               *)
(* strconv.FormatFloat(n, 'f', -1, 64) is exact on that representation.    *)
(***************************************************************************)
EXTENDS Integers, Sequences, FiniteSets, TLC

VARIABLES
    crf,      \* the CSVRecordFormat in use
    edits,    \* number of field assignments made to crf since it was built
    ferr,     \* result of the last crf.Validate(), "none" before the first
    t,        \* the Transaction the methods are called on
    fields,   \* the CSV record handed to ParseCSV, as its caller sees it
    cap,      \* the capacity of the slice that holds fields
    origin,   \* where fields came from: "input" or "split" (of a CSV string)
    enc,      \* the Transaction that the last String* call rendered
    rec,      \* the record that the last ParseCSV call decoded
    pre,      \* the Transaction as it was before the last Parse* call
    out,      \* the text returned by the last String* call
    err,      \* the error returned by the last Parse* call, "nil" if none
    lines,    \* the lines of the Ledger journal entry handed to ParseLedger
    op,       \* the last operation performed
    cfg,      \* translate: the configuration read from the command's flags
    input,    \* the records (translate) or the lines (mrglent) on standard input
    pos,      \* number of records or lines read from input so far
    ts,       \* translate: the transactions parsed so far
    logged,   \* translate: the errors logged so far, each with its record's number
    lns,      \* mrglent: the lines of the current entry
    entry,    \* mrglent: the ledgerEntry e that every entry is parsed into
    entries,  \* mrglent: j.Entries
    written   \* the text written to standard output

vars == <<crf, edits, ferr, t, fields, cap, origin, enc, rec, pre, out, err, lines, op,
          cfg, input, pos, ts, logged, lns, entry, entries, written>>

fmtVars == <<crf, edits, ferr>>
csvVars == <<t, fields, cap, origin, enc, rec, pre, out, err>>
progVars == <<cfg, input, pos, ts, logged, lns, entry, entries, written>>

-----------------------------------------------------------------------------
(* Text helpers *)

Digits == <<"0", "1", "2", "3", "4", "5", "6", "7", "8", "9">>

IsDigit(c) == \E i \in 1..10 : Digits[i] = c

DigitVal(c) == (CHOOSE i \in 1..10 : Digits[i] = c) - 1

AllDigits(s) == \A i \in 1..Len(s) : IsDigit(s[i])

RECURSIVE Atoi(_)
Atoi(s) == IF s = <<>> THEN 0
           ELSE Atoi(SubSeq(s, 1, Len(s) - 1)) * 10 + DigitVal(s[Len(s)])

RECURSIVE Itoa(_)
Itoa(n) == IF n < 10 THEN <<Digits[n + 1]>>
           ELSE Itoa(n \div 10) \o <<Digits[(n % 10) + 1]>>

RECURSIVE Pow10(_)
Pow10(k) == IF k = 0 THEN 1 ELSE 10 * Pow10(k - 1)

RECURSIVE ZeroPad(_, _)
ZeroPad(s, width) == IF Len(s) >= width THEN s ELSE ZeroPad(<<"0">> \o s, width)

HasPrefix(s, p) == Len(p) <= Len(s) /\ SubSeq(s, 1, Len(p)) = p

HasSuffix(s, p) == Len(p) <= Len(s) /\ SubSeq(s, Len(s) - Len(p) + 1, Len(s)) = p

Drop(s, k) == SubSeq(s, k + 1, Len(s))

RECURSIVE Join(_, _)
Join(ss, sep) == IF ss = <<>> THEN <<>>
                 ELSE IF Len(ss) = 1 THEN ss[1]
                 ELSE ss[1] \o sep \o Join(Tail(ss), sep)

(* strings.Split(s, sep) for a one-character separator *)
RECURSIVE SplitAcc(_, _, _, _)
SplitAcc(s, c, cur, acc) ==
    IF s = <<>> THEN Append(acc, cur)
    ELSE IF Head(s) = c THEN SplitAcc(Tail(s), c, <<>>, Append(acc, cur))
    ELSE SplitAcc(Tail(s), c, Append(cur, Head(s)), acc)

Split(s, c) == SplitAcc(s, c, <<>>, <<>>)

(* strings.TrimRight(s, cutset) for a one-character cutset *)
RECURSIVE TrimRight(_, _)
TrimRight(s, c) == IF s # <<>> /\ s[Len(s)] = c
                   THEN TrimRight(SubSeq(s, 1, Len(s) - 1), c)
                   ELSE s

(* strings.Fields(s): the maximal runs of non-space characters *)
IsSpace(c) == c \in {" ", "\t", "\n"}

RECURSIVE FieldsAcc(_, _, _)
FieldsAcc(s, cur, acc) ==
    IF s = <<>> THEN (IF cur = <<>> THEN acc ELSE Append(acc, cur))
    ELSE IF IsSpace(Head(s))
         THEN FieldsAcc(Tail(s), <<>>, IF cur = <<>> THEN acc ELSE Append(acc, cur))
         ELSE FieldsAcc(Tail(s), Append(cur, Head(s)), acc)

Fields(s) == FieldsAcc(s, <<>>, <<>>)

(* strings.Cut(s, sep): the text before the first sep, all of s without one *)
RECURSIVE CutBefore(_, _)
CutBefore(s, c) == IF s = <<>> \/ Head(s) = c THEN <<>>
                   ELSE <<Head(s)>> \o CutBefore(Tail(s), c)

-----------------------------------------------------------------------------
(* Decimal values: the float64 amounts of the program *)

RECURSIVE Norm(_, _)
Norm(m, e) == IF e > 0 /\ m % 10 = 0 THEN Norm(m \div 10, e - 1)
              ELSE [m |-> m, e |-> e]

Zero == [m |-> 0, e |-> 0]

Neg(v) == [m |-> 0 - v.m, e |-> v.e]

Abs(n) == IF n < 0 THEN 0 - n ELSE n

EmptyText == <<>>

(* strconv.ParseFloat on an optional sign, digits and an optional point    *)
(* followed by digits, with at least one digit; any other text is a        *)
(* syntax error.                                                           *)
parseFloat(s) ==
    LET signed == s # <<>> /\ s[1] \in {"+", "-"}
        u      == IF signed THEN Tail(s) ELSE s
        ip     == CutBefore(u, ".")
        fp     == IF Len(ip) < Len(u) THEN Drop(u, Len(ip) + 1) ELSE <<>>
        ok     == AllDigits(ip) /\ AllDigits(fp) /\ Len(ip) + Len(fp) >= 1
        mag    == Norm(Atoi(ip \o fp), Len(fp))
    IN IF ~ok THEN [v |-> Zero, err |-> "errSyntax"]
       ELSE [v |-> IF signed /\ s[1] = "-" THEN Neg(mag) ELSE mag, err |-> "nil"]

(* positiveResult that lets a zero through *)
positiveResultNotNegative(r) ==
    CASE r.err # "nil" -> [v |-> Zero, err |-> r.err]
      [] r.v.m < 0     -> [v |-> Zero, err |-> "errPositiveNumber"]
      [] OTHER         -> [v |-> r.v, err |-> "nil"]

(* The switch of parsePositiveFloat, on the value and error of parseFloat *)
positiveResult(r) ==
    CASE r.err # "nil" -> [v |-> Zero, err |-> r.err]
      [] r.v.m <= 0    -> [v |-> Zero, err |-> "errPositiveNumber"]
      [] OTHER         -> [v |-> r.v, err |-> "nil"]

parsePositiveFloat(s) == positiveResult(parseFloat(s))

(* strconv.FormatFloat(n, 'f', -1, 64) *)
stringAmount(n) ==
    LET a    == Abs(n.m)
        ip   == a \div Pow10(n.e)
        fp   == a % Pow10(n.e)
        sign == IF n.m < 0 THEN <<"-">> ELSE <<>>
        frac == IF n.e = 0 THEN <<>> ELSE <<".">> \o ZeroPad(Itoa(fp), n.e)
    IN sign \o Itoa(ip) \o frac

depunctAmount(amount, puncts) ==
    IF puncts = <<>> THEN amount
    ELSE SelectSeq(amount, LAMBDA b : ~(\E i \in 1..Len(puncts) : puncts[i] = b))

(* amountResult without the zero case *)
amountResultZeroAllowed(r) ==
    CASE r.err # "nil" -> [v |-> Zero, err |-> r.err]
      [] OTHER         -> [v |-> r.v, err |-> "nil"]

(* The second switch of parseAmount, on the value and error of the first *)
amountResult(r) ==
    CASE r.err # "nil" -> [v |-> Zero, err |-> r.err]
      [] r.v.m = 0     -> [v |-> Zero, err |-> "errAmount"]
      [] OTHER         -> [v |-> r.v, err |-> "nil"]

negated(p) == [v |-> Neg(p.v), err |-> p.err]

(* amountSwitch that forgets to negate a debit *)
amountSwitchDebitNotNegated(a, c, d, ps) ==
    CASE a # <<>>              -> parseFloat(depunctAmount(a, ps))
      [] c # <<>> /\ d = <<>>  -> parsePositiveFloat(depunctAmount(c, ps))
      [] d # <<>> /\ c = <<>>  -> parsePositiveFloat(depunctAmount(d, ps))
      [] OTHER                 -> [v |-> Zero, err |-> "errCreditDebit"]

(* amountSwitch that takes the credit whenever it is non-empty, whatever   *)
(* the debit holds                                                         *)
amountSwitchCreditFirst(a, c, d, ps) ==
    CASE a # <<>>              -> parseFloat(depunctAmount(a, ps))
      [] c # <<>>              -> parsePositiveFloat(depunctAmount(c, ps))
      [] d # <<>> /\ c = <<>>  -> negated(parsePositiveFloat(depunctAmount(d, ps)))
      [] OTHER                 -> [v |-> Zero, err |-> "errCreditDebit"]

(* amountSwitch that looks at the amount text only when neither the       *)
(* credit nor the debit case applies                                       *)
amountSwitchAmountLast(a, c, d, ps) ==
    CASE c # <<>> /\ d = <<>>  -> parsePositiveFloat(depunctAmount(c, ps))
      [] d # <<>> /\ c = <<>>  -> negated(parsePositiveFloat(depunctAmount(d, ps)))
      [] a # <<>>              -> parseFloat(depunctAmount(a, ps))
      [] OTHER                 -> [v |-> Zero, err |-> "errCreditDebit"]

(* The first switch of parseAmount, on the amount, credit and debit texts *)
amountSwitch(a, c, d, ps) ==
    CASE a # <<>>              -> parseFloat(depunctAmount(a, ps))
      [] c # <<>> /\ d = <<>>  -> parsePositiveFloat(depunctAmount(c, ps))
      [] d # <<>> /\ c = <<>>  -> negated(parsePositiveFloat(depunctAmount(d, ps)))
      [] OTHER                 -> [v |-> Zero, err |-> "errCreditDebit"]

(* fs is the record with the empty string prepended: Go's fields[i] is     *)
(* fs[i + 1] here.                                                         *)
parseAmount(fs, f) ==
    amountResult(amountSwitch(fs[f.AmountI + 1], fs[f.CreditI + 1], fs[f.DebitI + 1],
                              f.AmountPuncts))

-----------------------------------------------------------------------------
(* Dates *)

DateOnly == <<"2", "0", "0", "6", "-", "0", "1", "-", "0", "2">>

IsLeap(y) == (y % 4 = 0 /\ y % 100 # 0) \/ y % 400 = 0

DaysIn(m, y) == IF m = 2 THEN (IF IsLeap(y) THEN 29 ELSE 28)
                ELSE IF m \in {4, 6, 9, 11} THEN 30 ELSE 31

(* time.Parse for layouts built from the chunks "2006", "01" and "02" and  *)
(* literal characters.  Omitted elements default to year 0, month 1, day 1.*)
RECURSIVE ParseChunks(_, _, _)
ParseChunks(layout, value, acc) ==
    CASE layout = <<>> -> [acc EXCEPT !.ok = (value = <<>>)]
      [] HasPrefix(layout, <<"2", "0", "0", "6">>) ->
            IF Len(value) >= 4 /\ AllDigits(SubSeq(value, 1, 4))
            THEN ParseChunks(Drop(layout, 4), Drop(value, 4),
                             [acc EXCEPT !.y = Atoi(SubSeq(value, 1, 4))])
            ELSE [acc EXCEPT !.ok = FALSE]
      [] HasPrefix(layout, <<"0", "1">>) ->
            IF Len(value) >= 2 /\ AllDigits(SubSeq(value, 1, 2))
            THEN ParseChunks(Drop(layout, 2), Drop(value, 2),
                             [acc EXCEPT !.mo = Atoi(SubSeq(value, 1, 2))])
            ELSE [acc EXCEPT !.ok = FALSE]
      [] HasPrefix(layout, <<"0", "2">>) ->
            IF Len(value) >= 2 /\ AllDigits(SubSeq(value, 1, 2))
            THEN ParseChunks(Drop(layout, 2), Drop(value, 2),
                             [acc EXCEPT !.d = Atoi(SubSeq(value, 1, 2))])
            ELSE [acc EXCEPT !.ok = FALSE]
      [] OTHER ->
            IF value # <<>> /\ Head(value) = Head(layout)
            THEN ParseChunks(Tail(layout), Tail(value), acc)
            ELSE [acc EXCEPT !.ok = FALSE]

timeParse(layout, value) ==
    LET r == ParseChunks(layout, value, [y |-> 0, mo |-> 1, d |-> 1, ok |-> TRUE])
    IN IF r.ok /\ r.mo \in 1..12 /\ r.d >= 1 /\ r.d <= DaysIn(r.mo, r.y)
       THEN r
       ELSE [y |-> 1, mo |-> 1, d |-> 1, ok |-> FALSE]   \* the zero Time

(* Time.Format(time.DateOnly) *)
formatDateOnly(d) ==
    ZeroPad(Itoa(d.y), 4) \o <<"-">> \o ZeroPad(Itoa(d.mo), 2) \o <<"-">> \o ZeroPad(Itoa(d.d), 2)

ParseDate(s, layout) ==
    LET d == timeParse(layout, s)
    IN IF ~d.ok THEN [s |-> EmptyText, err |-> "errParseDate"]
       ELSE [s |-> formatDateOnly(d), err |-> "nil"]

validateDateOnly(s) == IF timeParse(DateOnly, s).ok THEN "nil" ELSE "errValidateDate"

-----------------------------------------------------------------------------
(* Transactions *)

DefaultOtherAccount == <<"I", "m", "b", "a", "l", "a", "n", "c", "e">>

(* The zero value of type Transaction *)
EmptyTransaction ==
    [Amount |-> Zero, Code |-> EmptyText, Currency |-> EmptyText, Date |-> EmptyText,
     Memo |-> EmptyText, OtherAccount |-> EmptyText, ThisAccount |-> EmptyText]

(* Transaction.Validate: the first error, "nil" for a valid transaction *)
ValidateTransaction(tr) ==
    CASE tr.Amount.m = 0                    -> "errAmount"
      [] validateDateOnly(tr.Date) # "nil"  -> "errValidateDate"
      [] tr.Memo = EmptyText                -> "errMemo"
      [] tr.OtherAccount = EmptyText        -> "errOtherAccount"
      [] tr.ThisAccount = EmptyText         -> "errThisAccount"
      [] tr.OtherAccount = tr.ThisAccount   -> "errAccounts"
      [] OTHER                              -> "nil"

IsValid(tr) == ValidateTransaction(tr) = "nil"

-----------------------------------------------------------------------------
(* CSV record formats *)

minNFields == 3
maxNFields == 20

(* The zero value of type CSVRecordFormat *)
ZeroFormat ==
    [NFields |-> 0, AmountI |-> 0, CreditI |-> 0, DebitI |-> 0, CurrencyI |-> 0,
     CodeI |-> 0, DateI |-> 0, MemoI |-> 0, OtherAccountI |-> 0, ThisAccountI |-> 0,
     DateLayout |-> EmptyText, AmountPuncts |-> EmptyText]

GetModuleCSVFormat ==
    [ZeroFormat EXCEPT !.NFields = 7, !.DateI = 1, !.ThisAccountI = 2,
                       !.OtherAccountI = 3, !.CodeI = 4, !.MemoI = 5, !.AmountI = 6,
                       !.CurrencyI = 7, !.DateLayout = DateOnly]

(* The indexes that validateIndexes collects, in its order *)
ValidatedIndexes(f) ==
    <<f.AmountI, f.CodeI, f.CreditI, f.DateI, f.DebitI, f.MemoI, f.OtherAccountI,
      f.ThisAccountI>>

(* The loop of validateIndexes from position k on, with the set inUse *)
RECURSIVE IndexLoop(_, _, _, _)
IndexLoop(is, k, n, inUse) ==
    IF k > Len(is) THEN "nil"
    ELSE CASE n < is[k]       -> "errIndexRange"
           [] is[k] = 0       -> IndexLoop(is, k + 1, n, inUse)
           [] is[k] \in inUse -> "errIndexUnique"
           [] OTHER           -> IndexLoop(is, k + 1, n, inUse \cup {is[k]})

(* validateIndexes without its check of the memo index *)
validateIndexesNoMemo(f) ==
    LET e == IndexLoop(ValidatedIndexes(f), 1, f.NFields, {})
    IN CASE e # "nil"     -> e
         [] f.DateI = 0   -> "errDateI"
         [] OTHER         -> "nil"

validateIndexes(f) ==
    LET e == IndexLoop(ValidatedIndexes(f), 1, f.NFields, {})
    IN CASE e # "nil"     -> e
         [] f.DateI = 0   -> "errDateI"
         [] f.MemoI = 0   -> "errMemoI"
         [] OTHER         -> "nil"

validateOptions(f) ==
    CASE f.AmountI # 0                   -> "nil"
      [] f.CreditI # 0 /\ f.DebitI # 0   -> "nil"
      [] OTHER                           -> "errAmountOption"

(* Validate that calls validateOptions before validateIndexes *)
ValidateFormatOptionsFirst(f) ==
    IF f.NFields < minNFields \/ maxNFields < f.NFields THEN "errNFieldsRange"
    ELSE IF validateOptions(f) # "nil" THEN validateOptions(f)
    ELSE IF validateIndexes(f) # "nil" THEN validateIndexes(f)
    ELSE IF formatDateOnly(timeParse(f.DateLayout, f.DateLayout)) # DateOnly
         THEN "errDateLayout"
    ELSE "nil"

(* CSVRecordFormat.Validate: the first error, "nil" for a valid format *)
ValidateFormat(f) ==
    IF f.NFields < minNFields \/ maxNFields < f.NFields THEN "errNFieldsRange"
    ELSE IF validateIndexes(f) # "nil" THEN validateIndexes(f)
    ELSE IF validateOptions(f) # "nil" THEN validateOptions(f)
    ELSE IF formatDateOnly(timeParse(f.DateLayout, f.DateLayout)) # DateOnly
         THEN "errDateLayout"
    ELSE "nil"

-----------------------------------------------------------------------------
(* The CSV transcoder *)

(* Whether Go's fs[i] is within the slice fs *)
InRange(fs, i) == i + 1 <= Len(fs)

(* Transaction.ParseCSV, written back to front: each operator is the rest  *)
(* of the method from one statement on, given the transaction tr as the    *)
(* statements before it left it and the record fs with the empty string    *)
(* prepended (Go's fs[i] is fs[i + 1] here).  Each returns the transaction *)
(* as the call leaves it and the error returned.  An index beyond the      *)
(* record is a run-time panic, reported as the error "panic".              *)
Returns(tr, e) == [t |-> tr, err |-> e]

(* parseCSVThisAccount that compares only the transaction's own this      *)
(* account with DefaultOtherAccount, not the field                         *)
parseCSVThisAccountFieldUnchecked(tr, fs, f) ==
    IF tr.ThisAccount = DefaultOtherAccount THEN Returns(tr, "errThisAccount")
    ELSE IF ~InRange(fs, f.ThisAccountI) THEN Returns(tr, "panic")
    ELSE CASE tr.ThisAccount # EmptyText -> Returns(tr, "nil")
           [] fs[f.ThisAccountI + 1] # EmptyText ->
                  Returns([tr EXCEPT !.ThisAccount = fs[f.ThisAccountI + 1]], "nil")
           [] OTHER -> Returns(tr, "errThisAccount")

(* parseCSVThisAccount in which a non-empty field replaces the value the   *)
(* transaction came with                                                   *)
parseCSVThisAccountFieldFirst(tr, fs, f) ==
    IF tr.ThisAccount = DefaultOtherAccount THEN Returns(tr, "errThisAccount")
    ELSE IF ~InRange(fs, f.ThisAccountI) THEN Returns(tr, "panic")
    ELSE CASE fs[f.ThisAccountI + 1] = DefaultOtherAccount -> Returns(tr, "errThisAccount")
           [] fs[f.ThisAccountI + 1] # EmptyText ->
                  Returns([tr EXCEPT !.ThisAccount = fs[f.ThisAccountI + 1]], "nil")
           [] tr.ThisAccount # EmptyText -> Returns(tr, "nil")
           [] OTHER -> Returns(tr, "errThisAccount")

parseCSVThisAccount(tr, fs, f) ==
    IF tr.ThisAccount = DefaultOtherAccount THEN Returns(tr, "errThisAccount")
    ELSE IF ~InRange(fs, f.ThisAccountI) THEN Returns(tr, "panic")
    ELSE CASE fs[f.ThisAccountI + 1] = DefaultOtherAccount -> Returns(tr, "errThisAccount")
           [] tr.ThisAccount # EmptyText -> Returns(tr, "nil")
           [] fs[f.ThisAccountI + 1] # EmptyText ->
                  Returns([tr EXCEPT !.ThisAccount = fs[f.ThisAccountI + 1]], "nil")
           [] OTHER -> Returns(tr, "errThisAccount")

parseCSVOtherAccount(tr, fs, f) ==
    IF ~InRange(fs, f.OtherAccountI) THEN Returns(tr, "panic")
    ELSE parseCSVThisAccount(
             [tr EXCEPT !.OtherAccount = IF fs[f.OtherAccountI + 1] = EmptyText
                                         THEN DefaultOtherAccount
                                         ELSE fs[f.OtherAccountI + 1]],
             fs, f)

parseCSVMemo(tr, fs, f) ==
    IF ~InRange(fs, f.MemoI) THEN Returns(tr, "panic")
    ELSE IF fs[f.MemoI + 1] = EmptyText
         THEN Returns([tr EXCEPT !.Memo = EmptyText], "errMemo")
    ELSE parseCSVOtherAccount([tr EXCEPT !.Memo = fs[f.MemoI + 1]], fs, f)

(* parseCSVCurrency that takes the field whatever the transaction holds *)
parseCSVCurrencyFieldAlways(tr, fs, f) ==
    IF ~InRange(fs, f.CurrencyI) THEN Returns(tr, "panic")
    ELSE parseCSVMemo([tr EXCEPT !.Currency = fs[f.CurrencyI + 1]], fs, f)

parseCSVCurrency(tr, fs, f) ==
    IF tr.Currency # EmptyText THEN parseCSVMemo(tr, fs, f)
    ELSE IF ~InRange(fs, f.CurrencyI) THEN Returns(tr, "panic")
    ELSE parseCSVMemo([tr EXCEPT !.Currency = fs[f.CurrencyI + 1]], fs, f)

parseCSVCode(tr, fs, f) ==
    IF ~InRange(fs, f.CodeI) THEN Returns(tr, "panic")
    ELSE parseCSVCurrency([tr EXCEPT !.Code = fs[f.CodeI + 1]], fs, f)

parseCSVAmountResult(tr, a, fs, f) ==
    IF a.err # "nil" THEN Returns([tr EXCEPT !.Amount = a.v], a.err)
    ELSE parseCSVCode([tr EXCEPT !.Amount = a.v], fs, f)

parseCSVAmount(tr, fs, f) ==
    IF ~(InRange(fs, f.AmountI) /\ InRange(fs, f.CreditI) /\ InRange(fs, f.DebitI))
    THEN Returns(tr, "panic")
    ELSE parseCSVAmountResult(tr, parseAmount(fs, f), fs, f)

parseCSVDateResult(tr, d, fs, f) ==
    IF d.err # "nil" THEN Returns([tr EXCEPT !.Date = d.s], d.err)
    ELSE parseCSVAmount([tr EXCEPT !.Date = d.s], fs, f)

parseCSVDate(tr, fs, f) ==
    IF ~InRange(fs, f.DateI) THEN Returns(tr, "panic")
    ELSE parseCSVDateResult(tr, ParseDate(fs[f.DateI + 1], f.DateLayout), fs, f)

(* ParseCSV that looks at the memo before the date and the amount *)
ParseCSVMemoFirst(tr, flds, f) ==
    IF Len(flds) # f.NFields THEN Returns(tr, "errNFields")
    ELSE IF flds[f.MemoI] = EmptyText THEN Returns(tr, "errMemo")
    ELSE parseCSVDate(tr, <<EmptyText>> \o flds, f)

ParseCSV(tr, flds, f) ==
    IF Len(flds) # f.NFields THEN Returns(tr, "errNFields")
    ELSE parseCSVDate(tr, <<EmptyText>> \o flds, f)

(* StringModuleCSV that leaves out the field of an empty currency *)
StringModuleCSVCurrencyIfAny(tr) ==
    LET a  == stringAmount(tr.Amount)
        fs == <<tr.Date, tr.ThisAccount, tr.OtherAccount, tr.Code, tr.Memo, a>>
              \o (IF tr.Currency = EmptyText THEN <<>> ELSE <<tr.Currency>>)
    IN Join(fs, <<",">>) \o <<"\n">>

StringModuleCSV(tr) ==
    LET a  == stringAmount(tr.Amount)
        fs == <<tr.Date, tr.ThisAccount, tr.OtherAccount, tr.Code, tr.Memo, a, tr.Currency>>
    IN Join(fs, <<",">>) \o <<"\n">>

(* What the caller's slice flds, of capacity c, holds after                 *)
(* slices.Insert(flds, 0, ""): with room for one more element the elements *)
(* are moved up by one within the slice's own array and the empty string   *)
(* is stored in front; without, the result is built in a new array.        *)
insertedInPlace(flds, c) ==
    IF Len(flds) > 0 /\ Len(flds) + 1 <= c
    THEN <<EmptyText>> \o SubSeq(flds, 1, Len(flds) - 1)
    ELSE flds

(* The caller's record after ParseCSV: ParseCSV returns before the insert  *)
(* when the number of fields is wrong.                                     *)
fieldsAfterParseCSV(flds, c, f) ==
    IF Len(flds) # f.NFields THEN flds ELSE insertedInPlace(flds, c)

-----------------------------------------------------------------------------
(* The Ledger transcoder *)

StartCode == <<"(">>
EndCode == <<")">>

(* LedgerAmount that puts every currency after the amount *)
LedgerAmountCurrencyAfter(tr) ==
    LET a == stringAmount(tr.Amount)
    IN CASE tr.Currency = EmptyText -> a
         [] OTHER                   -> a \o <<" ">> \o tr.Currency

(* The amount of a journal entry with its currency *)
LedgerAmount(tr) ==
    LET a == stringAmount(tr.Amount)
    IN CASE tr.Currency = EmptyText -> a
         [] tr.Currency = <<"$">>   -> <<"$">> \o a
         [] OTHER                   -> a \o <<" ">> \o tr.Currency

(* LedgerCode that adds both brackets whatever the code holds *)
LedgerCodeAlwaysWrapped(tr) ==
    IF tr.Code = EmptyText THEN EmptyText
    ELSE <<" ">> \o StartCode \o tr.Code \o EndCode

(* The code of a journal entry, in brackets and after a space *)
LedgerCode(tr) ==
    IF tr.Code = EmptyText THEN EmptyText
    ELSE <<" ">>
         \o (IF ~HasPrefix(tr.Code, StartCode) THEN StartCode ELSE EmptyText)
         \o tr.Code
         \o (IF ~HasSuffix(tr.Code, EndCode) THEN EndCode ELSE EmptyText)

(* StringLedger with the two-space indent of the package's earlier versions *)
StringLedgerTwoSpaces(tr) ==
    tr.Date \o LedgerCode(tr) \o <<" ">> \o tr.Memo \o <<"\n">>
    \o <<" ", " ">> \o tr.ThisAccount \o <<" ", " ">> \o LedgerAmount(tr) \o <<"\n">>
    \o <<" ", " ">> \o tr.OtherAccount \o <<"\n">>

(* fmt.Sprintf("%v%v %v\n %v  %v\n %v\n", ...) *)
StringLedger(tr) ==
    tr.Date \o LedgerCode(tr) \o <<" ">> \o tr.Memo \o <<"\n">>
    \o <<" ">> \o tr.ThisAccount \o <<" ", " ">> \o LedgerAmount(tr) \o <<"\n">>
    \o <<" ">> \o tr.OtherAccount \o <<"\n">>

(* getCode that asks for at least four characters *)
getCodeMinFour(s) ==
    LET n == Len(s)
    IN IF n < 4 \/ ~HasPrefix(s, StartCode) \/ ~HasSuffix(s, EndCode) THEN EmptyText
       ELSE SubSeq(s, 2, n - 1)

getCode(s) ==
    LET n == Len(s)
    IN IF n < 3 \/ ~HasPrefix(s, StartCode) \/ ~HasSuffix(s, EndCode) THEN EmptyText
       ELSE SubSeq(s, 2, n - 1)

getDate(s) == ParseDate(CutBefore(s, "="), DateOnly)

isStatusMark(s) == s \in {<<"*">>, <<"!">>}

(* Transaction.ParseLedger on transaction tr: the transaction as the call  *)
(* leaves it and the error returned.                                       *)
ParseLedger(tr, ls) ==
    IF Len(ls) = 0 \/ Len(ls[1]) = 0 \/ ~IsDigit(ls[1][1])
    THEN [t |-> tr, err |-> "errStartNumber"]
    ELSE
    LET fs == Fields(ls[1])
        d  == getDate(fs[1])
        t1 == [tr EXCEPT !.Date = d.s]
        n  == Len(fs)
    IN IF d.err # "nil" THEN [t |-> t1, err |-> d.err]
    ELSE IF n < 2 THEN [t |-> t1, err |-> "nil"]
    ELSE
    LET i0 == IF 3 <= n /\ isStatusMark(fs[2]) THEN 2 ELSE 1
        t2 == [t1 EXCEPT !.Code = getCode(fs[i0 + 1])]
        i1 == IF t2.Code # EmptyText THEN i0 + 1 ELSE i0
    IN IF i1 < n
       THEN [t |-> [t2 EXCEPT !.Memo = Join(SubSeq(fs, i1 + 1, n), <<" ">>)], err |-> "nil"]
       ELSE [t |-> t2, err |-> "nil"]

(* The names of the output formats *)
CSV == <<"c", "s", "v">>
Ledger == <<"l", "e", "d", "g", "e", "r">>

StringFormat(tr, name) ==
    CASE name = CSV    -> StringModuleCSV(tr)
      [] name = Ledger -> StringLedger(tr)
      [] OTHER         -> EmptyText

-----------------------------------------------------------------------------
(* Comparing and reordering, as the programs do *)

(* The byte of a character of a date *)
ByteOf(c) == IF c = "-" THEN 45 ELSE 48 + DigitVal(c)

(* Go's a < b on strings: byte by byte, a proper prefix being less *)
RECURSIVE Less(_, _)
Less(a, b) ==
    CASE b = <<>>                        -> FALSE
      [] a = <<>>                        -> TRUE
      [] ByteOf(a[1]) < ByteOf(b[1])     -> TRUE
      [] ByteOf(a[1]) > ByteOf(b[1])     -> FALSE
      [] OTHER                           -> Less(Tail(a), Tail(b))

(* slices.Backward *)
Backward(q) == [i \in 1..Len(q) |-> q[Len(q) + 1 - i]]

-----------------------------------------------------------------------------
(* Bounds and input sets *)

MaxEdits == 2     \* field assignments made to a format before it is validated
MaxIndex == 6     \* largest value assigned to a field index

SlashLayout == <<"0", "2", "/", "0", "1", "/", "2", "0", "0", "6">>
DashLayout == <<"0", "2", "-", "0", "1", "-", "2", "0", "0", "6">>

(* The formats of the package's tests: a Kiwibank full statement, a        *)
(* minimal statement and a PCU account statement                           *)
kbFull ==
    [ZeroFormat EXCEPT !.NFields = 16, !.AmountI = 15, !.CreditI = 13, !.DateI = 2,
                       !.DebitI = 14, !.MemoI = 3, !.OtherAccountI = 12,
                       !.ThisAccountI = 1, !.DateLayout = DashLayout]

mini ==
    [ZeroFormat EXCEPT !.NFields = 4, !.AmountI = 3, !.CurrencyI = 4, !.DateI = 1,
                       !.MemoI = 2, !.DateLayout = DateOnly]

pcu ==
    [ZeroFormat EXCEPT !.NFields = 5, !.CreditI = 4, !.DateI = 1, !.DebitI = 3,
                       !.MemoI = 2, !.DateLayout = SlashLayout]

IndexRoles == {"AmountI", "CreditI", "DebitI", "CurrencyI", "CodeI", "DateI", "MemoI",
               "OtherAccountI", "ThisAccountI"}

BaseFormats == {GetModuleCSVFormat, mini, pcu}

NFieldsValues == {minNFields - 1, minNFields, maxNFields, maxNFields + 1}

LayoutValues == {EmptyText, <<"g">>, <<"2", "0", "0", "6", "-", "0", "1">>, SlashLayout}

-----------------------------------------------------------------------------
(* Building and validating a CSV record format *)

(* The variables of the programs while only the package is exercised *)
progDefaults ==
    /\ cfg = [currency |-> EmptyText, thisAccount |-> EmptyText, outFormatName |-> <<>>]
    /\ input = <<>>
    /\ pos = 0
    /\ ts = <<>>
    /\ logged = <<>>
    /\ lns = <<>>
    /\ entry = [Lines |-> <<>>, Trn |-> EmptyTransaction]
    /\ entries = <<>>
    /\ written = <<>>

csvDefaults ==
    /\ t = EmptyTransaction
    /\ fields = <<>>
    /\ cap = 0
    /\ origin = "input"
    /\ enc = EmptyTransaction
    /\ rec = <<>>
    /\ pre = EmptyTransaction
    /\ out = EmptyText
    /\ err = "nil"

InitFormat ==
    /\ crf \in BaseFormats
    /\ edits = 0
    /\ ferr = "none"
    /\ csvDefaults
    /\ lines = <<>>
    /\ progDefaults
    /\ op = "init"

(* One field index of the format is assigned, as the tests and the XML     *)
(* decoder of ReadCSVFormat do before Validate is called.                  *)
SetIndex(role, v) ==
    /\ ferr = "none"
    /\ edits < MaxEdits
    /\ crf' = [crf EXCEPT ![role] = v]
    /\ edits' = edits + 1
    /\ op' = "SetIndex"
    /\ UNCHANGED <<ferr, lines>>
    /\ UNCHANGED csvVars
    /\ UNCHANGED progVars

SetNFields(n) ==
    /\ ferr = "none"
    /\ edits < MaxEdits
    /\ crf' = [crf EXCEPT !.NFields = n]
    /\ edits' = edits + 1
    /\ op' = "SetNFields"
    /\ UNCHANGED <<ferr, lines>>
    /\ UNCHANGED csvVars
    /\ UNCHANGED progVars

SetDateLayout(l) ==
    /\ ferr = "none"
    /\ edits < MaxEdits
    /\ crf' = [crf EXCEPT !.DateLayout = l]
    /\ edits' = edits + 1
    /\ op' = "SetDateLayout"
    /\ UNCHANGED <<ferr, lines>>
    /\ UNCHANGED csvVars
    /\ UNCHANGED progVars

Validate ==
    /\ ferr = "none"
    /\ ferr' = ValidateFormat(crf)
    /\ op' = "Validate"
    /\ UNCHANGED <<crf, edits, lines>>
    /\ UNCHANGED csvVars
    /\ UNCHANGED progVars

NextFormat ==
    \/ \E role \in IndexRoles, v \in 0..MaxIndex : SetIndex(role, v)
    \/ \E n \in NFieldsValues : SetNFields(n)
    \/ \E l \in LayoutValues : SetDateLayout(l)
    \/ Validate

SpecFormat == InitFormat /\ [][NextFormat]_vars

-----------------------------------------------------------------------------
(* Records and transactions handed to the CSV transcoder *)

Abc == <<"A", "B", "C">>
Xyz == <<"X", "Y", "Z">>
Kb == <<"K", "B">>
Pay == <<"P", "a", "y">>
Transfer == <<"T", "r", "a", "n", "s", "f", "e", "r">>
Nzd == <<"N", "Z", "D">>
Usd == <<"U", "S", "D">>
Dollar == <<"$">>
Ap == <<"A", "P">>

ModuleRecords ==
    { <<d, ta, oa, co, me, am, cu>> :
        d  \in {<<"2", "0", "2", "5", "-", "0", "5", "-", "0", "2">>, <<"2", "0", "2", "5", "-", "1", "3", "-", "0", "2">>},
        ta \in {EmptyText, Abc, DefaultOtherAccount},
        oa \in {EmptyText, Xyz, Abc},
        co \in {EmptyText, Ap},
        me \in {EmptyText, Pay},
        am \in {EmptyText, <<"4", "2", ".", "0", "0">>, <<"-", "1", ".", "2", "3">>, <<"0", ".", "0", "0">>, <<"x">>},
        cu \in {EmptyText, Dollar, Nzd} }

PcuRecords ==
    { <<d, me, db, cr, <<"2", "6", "5", ".", "0", "1">>>> :
        d  \in {<<"0", "7", "/", "0", "1", "/", "2", "0", "2", "0">>, <<"3", "1", "/", "0", "2", "/", "2", "0", "2", "0">>},
        me \in {EmptyText, Pay},
        db \in {EmptyText, <<"1", "6", ".", "9", "2">>, <<"-", "1", "2", ".", "3", "5">>, <<"0">>, <<"$", "1", ",", "2", "3", "4", ".", "5", "0">>},
        cr \in {EmptyText, <<"1", "2", "3", ".", "0", "0">>, <<"-", "1", "2", ".", "3", "5">>, <<"0", ".", "0">>, <<"$", ".", "5">>} }

KbRecords ==
    { <<ta, d, me, Ap, EmptyText, EmptyText, EmptyText, EmptyText, EmptyText, EmptyText,
        EmptyText, oa, cr, db, am, <<"1", "4", "3", "4", ".", "2", "3">>>> :
        ta \in {EmptyText, Kb},
        d  \in {<<"2", "9", "-", "1", "2", "-", "2", "0", "2", "3">>, <<"2", "9", "/", "1", "2", "/", "2", "0", "2", "3">>},
        me \in {EmptyText, Pay},
        oa \in {EmptyText, Xyz},
        cr \in {EmptyText, <<"1", "6", "2", ".", "0", "0">>},
        db \in {EmptyText, <<"1", "6", "2", ".", "0", "0">>},
        am \in {EmptyText, <<"1", "6", "2", ".", "0", "0">>, <<"-", "1", "6", "2", ".", "0", "0">>, <<"0", ".", "0", "0">>} }

(* A PCU statement whose amounts carry a currency sign and separators *)
pcuPuncts == [pcu EXCEPT !.AmountPuncts = <<"$", ",">>]

RecordsOf(f) ==
    CASE f = GetModuleCSVFormat -> ModuleRecords
      [] f = pcu                -> PcuRecords
      [] f = pcuPuncts          -> PcuRecords
      [] f = kbFull             -> KbRecords

CSVFormats == {GetModuleCSVFormat, pcu, pcuPuncts, kbFull}

(* The transactions a caller hands to ParseCSV: the zero value, or one     *)
(* with this account or the currency set beforehand                       *)
PresetTransactions ==
    { [EmptyTransaction EXCEPT !.ThisAccount = ta, !.Currency = cu] :
        ta \in {EmptyText, Kb, DefaultOtherAccount}, cu \in {EmptyText, Usd} }

(* The transactions a caller builds directly and hands to the String*      *)
(* methods                                                                 *)
BuiltTransactions ==
    { [Amount |-> a, Code |-> co, Currency |-> cu, Date |-> d, Memo |-> me,
       OtherAccount |-> oa, ThisAccount |-> ta] :
        a  \in {Zero, [m |-> 42, e |-> 0], [m |-> 0 - 123, e |-> 2], [m |-> 1, e |-> 2]},
        co \in {EmptyText, Ap, <<"(", "A", "P", ")">>, <<"(", "A", "P">>, <<"A", "P", ")">>},
        cu \in {EmptyText, Dollar, Nzd},
        d  \in {<<"2", "0", "2", "5", "-", "0", "5", "-", "0", "5">>, <<"2", "0", "2", "5", "-", "1", "3", "-", "0", "2">>},
        me \in {EmptyText, Transfer},
        oa \in {EmptyText, Xyz, DefaultOtherAccount},
        ta \in {EmptyText, Abc, Xyz, DefaultOtherAccount} }

-----------------------------------------------------------------------------
(* Decoding and encoding CSV records *)

(* A record of a statement is about to be decoded under a valid format     *)
(* Records with too few or too many fields for the format in use *)
WrongLengthRecords(f) ==
    { r \in { <<<<"2", "0", "2", "5", "-", "0", "5", "-", "0", "2">>, Pay>>,
              <<<<"2", "0", "2", "5", "-", "0", "5", "-", "0", "2">>, Abc, Xyz, EmptyText,
                Pay, <<"4", "2", ".", "0", "0">>>> } : Len(r) # f.NFields }

InitDecode ==
    /\ crf \in CSVFormats
    /\ fields \in RecordsOf(crf) \cup WrongLengthRecords(crf)
    /\ t \in PresetTransactions
    /\ pre = t
    /\ enc = EmptyTransaction

(* A transaction built by the caller is about to be rendered *)
InitEncode ==
    /\ crf = GetModuleCSVFormat
    /\ fields = <<>>
    /\ t \in BuiltTransactions
    /\ pre = t
    /\ enc = t

InitCSV ==
    /\ (InitDecode \/ InitEncode)
    /\ cap = Len(fields)
    /\ edits = 0
    /\ ferr = ValidateFormat(crf)
    /\ origin = "input"
    /\ rec = <<>>
    /\ out = EmptyText
    /\ err = "nil"
    /\ lines = <<>>
    /\ progDefaults
    /\ op = "init"

DoParseCSV ==
    /\ fields # <<>>
    /\ LET r == ParseCSV(t, fields, crf)
       IN /\ t' = r.t
          /\ err' = r.err
    /\ fields' = fieldsAfterParseCSV(fields, cap, crf)
    /\ pre' = t
    /\ rec' = fields
    /\ op' = "ParseCSV"
    /\ UNCHANGED <<crf, edits, ferr, cap, origin, enc, out, lines>>
    /\ UNCHANGED progVars

DoStringModuleCSV ==
    /\ out' = StringModuleCSV(t)
    /\ enc' = t
    /\ op' = "StringModuleCSV"
    /\ UNCHANGED <<crf, edits, ferr, t, fields, cap, origin, rec, pre, err, lines>>
    /\ UNCHANGED progVars

DoStringLedger ==
    /\ out' = StringLedger(t)
    /\ enc' = t
    /\ op' = "StringLedger"
    /\ UNCHANGED <<crf, edits, ferr, t, fields, cap, origin, rec, pre, err, lines>>
    /\ UNCHANGED progVars

(* The CSV record just rendered is stripped of its newline and split on    *)
(* commas, to be decoded into a new Transaction under the module's format  *)
SplitRecord ==
    /\ op = "StringModuleCSV"
    /\ fields' = Split(TrimRight(out, "\n"), ",")
    /\ cap' = Len(fields')
    /\ origin' = "split"
    /\ t' = EmptyTransaction
    /\ crf' = GetModuleCSVFormat
    /\ ferr' = ValidateFormat(GetModuleCSVFormat)
    /\ pre' = EmptyTransaction
    /\ rec' = <<>>
    /\ err' = "nil"
    /\ op' = "Split"
    /\ UNCHANGED <<edits, enc, out, lines>>
    /\ UNCHANGED progVars

NextCSV ==
    \/ DoParseCSV
    \/ DoStringModuleCSV
    \/ DoStringLedger
    \/ SplitRecord

SpecCSV == InitCSV /\ [][NextCSV]_vars

-----------------------------------------------------------------------------
(* A record format is built, validated and then used to decode a record,   *)
(* as translate does with the format it has read                           *)

(* A date written in the layout l *)
DateIn(l) ==
    CASE l = DateOnly    -> <<"2", "0", "2", "5", "-", "0", "5", "-", "0", "2">>
      [] l = SlashLayout -> <<"0", "5", "/", "0", "2", "/", "2", "0", "2", "5">>
      [] OTHER           -> l

(* A record of f.NFields fields with, where the format has them, a date,   *)
(* an amount or a credit, a memo and this account, its other fields empty  *)
FittedRecord(f) ==
    [i \in 1..f.NFields |->
        CASE i = f.DateI        -> DateIn(f.DateLayout)
          [] i = f.AmountI      -> <<"4", "2", ".", "0", "0">>
          [] i = f.CreditI      -> <<"4", "2", ".", "0", "0">>
          [] i = f.MemoI        -> Pay
          [] i = f.ThisAccountI -> Abc
          [] OTHER              -> EmptyText]

(* A record of f.NFields fields that all hold the same word *)
PlainRecord(f) == [i \in 1..f.NFields |-> Pay]

(* A record with exactly NFields fields is decoded under the format that   *)
(* Validate has accepted.                                                  *)
ParseUnderFormat ==
    /\ op = "Validate"
    /\ ferr = "nil"
    /\ \E tr \in PresetTransactions, r \in {FittedRecord(crf), PlainRecord(crf)} :
          /\ t' = ParseCSV(tr, r, crf).t
          /\ err' = ParseCSV(tr, r, crf).err
          /\ fields' = fieldsAfterParseCSV(r, Len(r), crf)
          /\ cap' = Len(r)
          /\ pre' = tr
          /\ rec' = r
    /\ op' = "ParseCSV"
    /\ UNCHANGED <<crf, edits, ferr, origin, enc, out, lines>>
    /\ UNCHANGED progVars

NextUse ==
    \/ NextFormat
    \/ ParseUnderFormat

SpecUse == InitFormat /\ [][NextUse]_vars

-----------------------------------------------------------------------------
(* Parsing the first line of a Ledger journal entry *)

MaxTokens == 3    \* tokens after the date on the first line of an entry

Mt == <<"M", "T">>
Old == <<"O", "l", "d">>

DateTokens == {<<"2", "0", "2", "3", "-", "1", "2", "-", "2", "9">>, <<"2", "0", "2", "3", "-", "1", "2", "-", "2", "9", "=", "2", "0", "2", "4", "-", "0", "1", "-", "0", "2">>, <<"2", "0", "2", "3", "-", "1", "3", "-", "2", "9">>}

WordTokens == {<<"*">>, <<"!">>, <<"(", "A", "P", ")">>, <<"(", "x", ")">>, <<"(", ")">>, Pay, <<"(", "x">>}

TokenSeqs == UNION { [1..k -> WordTokens] : k \in 0..MaxTokens }

(* The first lines: a date and words separated by single spaces, and some  *)
(* lines that are spaced otherwise or do not start with a digit            *)
HeaderLines ==
    { Join(<<d>> \o ws, <<" ">>) : d \in DateTokens, ws \in TokenSeqs }
    \cup { EmptyText,
           <<" ">> \o <<"2", "0", "2", "3", "-", "1", "2", "-", "2", "9">> \o <<" ">> \o Pay,
           <<"x">>,
           <<"2", "0", "2", "3", "-", "1", "2", "-", "2", "9">> \o <<" ", " ", "*", "\t">> \o Pay \o <<" ">> }

(* The entries: a first line and the two lines of its accounts *)
LedgerEntries ==
    { <<h, <<" ">> \o Abc \o <<" ", " ", "1">>, <<" ">> \o Xyz>> : h \in HeaderLines }
    \cup { <<>> }

(* The Transaction that ParseLedger is called on: the zero value, or the   *)
(* value left by parsing an earlier entry                                  *)
LedgerTransactions ==
    { EmptyTransaction,
      [EmptyTransaction EXCEPT !.Date = <<"2", "0", "2", "3", "-", "1", "2", "-", "2", "8">>, !.Code = Mt, !.Memo = Old] }

InitLedger ==
    /\ crf = GetModuleCSVFormat
    /\ edits = 0
    /\ ferr = "none"
    /\ fields = <<>>
    /\ cap = 0
    /\ origin = "input"
    /\ enc = EmptyTransaction
    /\ rec = <<>>
    /\ out = EmptyText
    /\ err = "nil"
    /\ t \in LedgerTransactions
    /\ pre = t
    /\ lines \in LedgerEntries
    /\ progDefaults
    /\ op = "init"

DoParseLedger ==
    /\ op = "init"
    /\ LET r == ParseLedger(t, lines)
       IN /\ t' = r.t
          /\ err' = r.err
    /\ pre' = t
    /\ op' = "ParseLedger"
    /\ UNCHANGED <<crf, edits, ferr, fields, cap, origin, enc, rec, out, lines>>
    /\ UNCHANGED progVars

NextLedger == DoParseLedger

SpecLedger == InitLedger /\ [][NextLedger]_vars

-----------------------------------------------------------------------------
(* Program translate: a CSV account statement is parsed record by record   *)
(* and the transactions are written in the named format                    *)

MaxRecords == 3   \* records of a statement

May1 == <<"2", "0", "2", "5", "-", "0", "5", "-", "0", "1">>
May2 == <<"2", "0", "2", "5", "-", "0", "5", "-", "0", "2">>
May3 == <<"2", "0", "2", "5", "-", "0", "5", "-", "0", "3">>

(* Records of a statement in the module's format: three that parse, on     *)
(* three dates, one without a memo, one with amount zero, one that is too  *)
(* short and one, a line of column titles, that is too long                *)
StatementRecords ==
    { <<d, Abc, Xyz, EmptyText, Pay, <<"4", "2", ".", "0", "0">>, EmptyText>> :
        d \in {May1, May2, May3} }
    \cup { <<May2, Abc, Xyz, EmptyText, EmptyText, <<"4", "2", ".", "0", "0">>, EmptyText>>,
           <<May1, EmptyText, Xyz, Ap, Transfer, <<"0", ".", "0", "0">>, Nzd>>,
           <<May3, Pay>>,
           <<Pay, Abc, Xyz, Ap, Pay, Abc, Xyz, Ap>> }

Statements == UNION { [1..k -> StatementRecords] : k \in 0..MaxRecords }

Configs ==
    { [currency |-> cu, thisAccount |-> ta, outFormatName |-> n] :
        cu \in {EmptyText, Usd}, ta \in {EmptyText, Kb}, n \in {CSV, Ledger} }

(* main has read its flags and validated the format; standard input holds  *)
(* a statement                                                             *)
InitTranslate ==
    /\ crf = GetModuleCSVFormat
    /\ edits = 0
    /\ ferr = ValidateFormat(crf)
    /\ csvDefaults
    /\ lines = <<>>
    /\ cfg \in Configs
    /\ ~(cfg.thisAccount = EmptyText /\ crf.ThisAccountI = 0)
    /\ input \in Statements
    /\ pos = 0
    /\ ts = <<>>
    /\ logged = <<>>
    /\ lns = <<>>
    /\ entry = [Lines |-> <<>>, Trn |-> EmptyTransaction]
    /\ entries = <<>>
    /\ written = <<>>
    /\ op = "init"

(* The Transaction that the loop of parseCSVStatement declares for a       *)
(* record                                                                  *)
NewTransaction ==
    [EmptyTransaction EXCEPT !.Currency = cfg.currency, !.ThisAccount = cfg.thisAccount]

(* ReadRecord that gives up the rest of the statement on an error *)
ReadRecordReturnsOnError ==
    /\ op \in {"init", "parseCSVStatement"}
    /\ pos < Len(input)
    /\ LET r == ParseCSV(NewTransaction, input[pos + 1], crf)
       IN /\ t' = r.t
          /\ err' = r.err
          /\ IF r.err # "nil"
             THEN /\ logged' = Append(logged, [line |-> pos + 1, err |-> r.err])
                  /\ ts' = ts
                  /\ pos' = Len(input)
             ELSE /\ ts' = Append(ts, r.t)
                  /\ logged' = logged
                  /\ pos' = pos + 1
    /\ pre' = NewTransaction
    /\ cap' = IF cap < Len(input[pos + 1]) THEN Len(input[pos + 1]) ELSE cap
    /\ fields' = fieldsAfterParseCSV(input[pos + 1], cap', crf)
    /\ rec' = input[pos + 1]
    /\ op' = "parseCSVStatement"
    /\ UNCHANGED <<crf, edits, ferr, origin, enc, out, lines, cfg, input, lns, entry,
                   entries, written>>

(* One pass of the loop of parseCSVStatement: a record is read and parsed; *)
(* on an error the error is logged and the record skipped, otherwise the   *)
(* transaction is appended to ts.  The reader, set to reuse its record,    *)
(* returns each record in the same slice, which grows to the longest       *)
(* record read so far.                                                     *)
ReadRecord ==
    /\ op \in {"init", "parseCSVStatement"}
    /\ pos < Len(input)
    /\ LET r == ParseCSV(NewTransaction, input[pos + 1], crf)
       IN /\ t' = r.t
          /\ err' = r.err
          /\ IF r.err # "nil"
             THEN /\ logged' = Append(logged, [line |-> pos + 1, err |-> r.err])
                  /\ ts' = ts
             ELSE /\ ts' = Append(ts, r.t)
                  /\ logged' = logged
    /\ pre' = NewTransaction
    /\ cap' = IF cap < Len(input[pos + 1]) THEN Len(input[pos + 1]) ELSE cap
    /\ fields' = fieldsAfterParseCSV(input[pos + 1], cap', crf)
    /\ rec' = input[pos + 1]
    /\ pos' = pos + 1
    /\ op' = "parseCSVStatement"
    /\ UNCHANGED <<crf, edits, ferr, origin, enc, out, lines, cfg, input, lns, entry,
                   entries, written>>

(* The sequence that stringTransactions ranges over *)
tSeq(q) == IF 2 <= Len(q) /\ Less(q[Len(q)].Date, q[1].Date) THEN Backward(q) ELSE q

(* The statement is at its end: parseCSVStatement returns ts and           *)
(* stringTransactions writes each transaction in the named format.         *)
StringTransactions ==
    /\ op \in {"init", "parseCSVStatement"}
    /\ pos = Len(input)
    /\ written' = [i \in 1..Len(ts) |-> StringFormat(tSeq(ts)[i], cfg.outFormatName)]
    /\ op' = "stringTransactions"
    /\ UNCHANGED <<crf, edits, ferr, lines, cfg, input, pos, ts, logged, lns, entry,
                   entries>>
    /\ UNCHANGED csvVars

NextTranslate ==
    \/ ReadRecord
    \/ StringTransactions

SpecTranslate == InitTranslate /\ [][NextTranslate]_vars

-----------------------------------------------------------------------------
(* Records decoded one after another into the same Transaction, as the     *)
(* package's tests do                                                      *)

MaxCalls == 2     \* calls of ParseCSV on the Transaction

(* Records in the module's format: two that decode, and ones with a date   *)
(* out of range, amount zero, no memo, this account "Imbalance", no this   *)
(* account, and too few fields                                             *)
RepeatRecords ==
    { <<May1, Abc, Xyz, Ap, Pay, <<"4", "2", ".", "0", "0">>, Nzd>>,
      <<May2, Abc, EmptyText, EmptyText, Transfer, <<"-", "1", ".", "2", "3">>, EmptyText>>,
      <<<<"2", "0", "2", "5", "-", "1", "3", "-", "0", "2">>, Abc, Xyz, Ap, Pay, <<"4", "2", ".", "0", "0">>, Nzd>>,
      <<May1, Abc, Xyz, Ap, Pay, <<"0", ".", "0", "0">>, Nzd>>,
      <<May1, Abc, Xyz, Ap, EmptyText, <<"4", "2", ".", "0", "0">>, Nzd>>,
      <<May1, DefaultOtherAccount, Xyz, Ap, Pay, <<"4", "2", ".", "0", "0">>, Nzd>>,
      <<May1, EmptyText, Xyz, Ap, Pay, <<"4", "2", ".", "0", "0">>, Nzd>>,
      <<May3, Pay>> }

InitRepeat ==
    /\ crf = GetModuleCSVFormat
    /\ edits = 0
    /\ ferr = ValidateFormat(crf)
    /\ t \in PresetTransactions
    /\ pre = t
    /\ fields = <<>>
    /\ cap = 0
    /\ origin = "input"
    /\ enc = EmptyTransaction
    /\ rec = <<>>
    /\ out = EmptyText
    /\ err = "nil"
    /\ lines = <<>>
    /\ progDefaults
    /\ op = "init"

(* The next record is decoded into the Transaction as the calls before     *)
(* left it.                                                                *)
ParseAgain ==
    /\ pos < MaxCalls
    /\ \E r \in RepeatRecords :
          /\ t' = ParseCSV(t, r, crf).t
          /\ err' = ParseCSV(t, r, crf).err
          /\ fields' = fieldsAfterParseCSV(r, Len(r), crf)
          /\ cap' = Len(r)
          /\ rec' = r
    /\ pre' = t
    /\ pos' = pos + 1
    /\ op' = "ParseCSV"
    /\ UNCHANGED <<crf, edits, ferr, origin, enc, out, lines, cfg, input, ts, logged,
                   lns, entry, entries, written>>

NextRepeat == ParseAgain

SpecRepeat == InitRepeat /\ [][NextRepeat]_vars

-----------------------------------------------------------------------------
(* Program mrglent: the entries of a Ledger journal are parsed line by     *)
(* line, those marked as mirrors are removed, the rest are sorted by date  *)
(* and written                                                             *)

MaxEntries == 3   \* entries, comments and blank lines of a journal

Jan1 == <<"2", "0", "2", "4", "-", "0", "1", "-", "0", "1">>
Jan2 == <<"2", "0", "2", "4", "-", "0", "1", "-", "0", "2">>
Jan3 == <<"2", "0", "2", "4", "-", "0", "1", "-", "0", "3">>
Mirror == <<"M", "i", "r", "r", "o", "r">>

(* What a journal is made of: entries with a code, a memo, both or only a  *)
(* date on the first line, one marked as a mirror, one with a date that    *)
(* does not parse, a comment and a blank line                              *)
JournalItems ==
    { <<Jan2 \o <<" ", "(">> \o Mt \o <<")", " ">> \o Mirror, <<" ">> \o Abc \o <<" ", " ", "1">>>>,
      <<Jan1 \o <<" ">> \o Pay, <<" ">> \o Abc \o <<" ", " ", "1">>>>,
      <<Jan2, <<"\t">> \o Xyz>>,
      <<Jan3 \o <<" ", "*", " ", "(">> \o Ap \o <<")">>, <<" ">> \o Abc \o <<" ", " ", "1">>>>,
      <<Jan1 \o <<" ", "!", " ">> \o Transfer>>,
      <<<<"2", "0", "2", "4", "-", "1", "3", "-", "0", "1">> \o <<" ">> \o Pay>>,
      <<<<";", " ">> \o Pay>>,
      <<EmptyText>> }

RECURSIVE Flatten(_)
Flatten(ss) == IF ss = <<>> THEN <<>> ELSE Head(ss) \o Flatten(Tail(ss))

(* The lines on standard input, as the scanner returns them *)
Journals == { Flatten(j) : j \in UNION { [1..k -> JournalItems] : k \in 0..MaxEntries } }

(* The zero ledgerEntry *)
ZeroEntry == [Lines |-> <<>>, Trn |-> EmptyTransaction]

(* make([]ledgerEntry, n) *)
makeEntries(n) == [i \in 1..n |-> ZeroEntry]

(* ledgerEntry.string *)
string(e) == Flatten(e.Lines)

(* ledgerJournal.demirror *)
RECURSIVE notMirrors(_)
notMirrors(es) ==
    IF es = <<>> THEN <<>>
    ELSE IF Head(es).Trn.Code = Mt THEN notMirrors(Tail(es))
    ELSE <<Head(es)>> \o notMirrors(Tail(es))

demirror(es) == makeEntries(Len(es)) \o notMirrors(es)

(* ds of ledgerJournal.sort: the dates of the entries in first-seen order *)
RECURSIVE firstSeen(_, _)
firstSeen(es, ds) ==
    IF es = <<>> THEN ds
    ELSE IF \E i \in 1..Len(ds) : ds[i] = Head(es).Trn.Date
         THEN firstSeen(Tail(es), ds)
         ELSE firstSeen(Tail(es), Append(ds, Head(es).Trn.Date))

(* d2es[d] of ledgerJournal.sort: the entries of date d in their order *)
RECURSIVE ofDate(_, _)
ofDate(es, d) ==
    IF es = <<>> THEN <<>>
    ELSE IF Head(es).Trn.Date = d THEN <<Head(es)>> \o ofDate(Tail(es), d)
    ELSE ofDate(Tail(es), d)

(* slices.Sort on strings *)
RECURSIVE insertSorted(_, _)
insertSorted(q, d) ==
    IF q = <<>> THEN <<d>>
    ELSE IF Less(d, Head(q)) THEN <<d>> \o q
    ELSE <<Head(q)>> \o insertSorted(Tail(q), d)

RECURSIVE slicesSort(_)
slicesSort(ds) ==
    IF ds = <<>> THEN <<>>
    ELSE insertSorted(slicesSort(SubSeq(ds, 1, Len(ds) - 1)), ds[Len(ds)])

RECURSIVE appendGroups(_, _)
appendGroups(ds, es) ==
    IF ds = <<>> THEN <<>> ELSE ofDate(es, Head(ds)) \o appendGroups(Tail(ds), es)

(* ledgerJournal.sort *)
sort(es) == makeEntries(Len(es)) \o appendGroups(slicesSort(firstSeen(es, <<>>)), es)

(* main has parsed its flags; standard input holds a journal *)
InitMrglent ==
    /\ crf = GetModuleCSVFormat
    /\ edits = 0
    /\ ferr = "none"
    /\ csvDefaults
    /\ lines = <<>>
    /\ cfg = [currency |-> EmptyText, thisAccount |-> EmptyText, outFormatName |-> <<>>]
    /\ input \in Journals
    /\ pos = 0
    /\ ts = <<>>
    /\ logged = <<>>
    /\ lns = <<>>
    /\ entry = ZeroEntry
    /\ entries = <<>>
    /\ written = <<>>
    /\ op = "init"

(* ledgerEntry.parse on the entry e, which is the same for every entry of  *)
(* the journal                                                             *)
entryParse(e, ls) ==
    [e |-> [Lines |-> IF ParseLedger(e.Trn, ls).err = "nil" THEN ls ELSE e.Lines,
            Trn |-> ParseLedger(e.Trn, ls).t],
     err |-> ParseLedger(e.Trn, ls).err]

(* ln of ledgerJournal.parse: the i-th line of the input and a newline *)
scanned(i) == input[i] \o <<"\n">>

(* One pass of the loop of ledgerJournal.parse: a line is scanned.  It     *)
(* continues the current entry, or it ends the current entry, which is     *)
(* parsed and appended to the journal, and may start the next one.  An     *)
(* error of the parse ends the program.                                    *)
ScanLine ==
    /\ op \in {"init", "j.parse"}
    /\ pos < Len(input)
    /\ pos' = pos + 1
    /\ IF 0 < Len(lns) /\ scanned(pos + 1)[1] \in {" ", "\t"}
       THEN /\ lns' = Append(lns, scanned(pos + 1))
            /\ op' = "j.parse"
            /\ UNCHANGED <<entry, entries, err>>
       ELSE IF 0 < Len(lns) /\ entryParse(entry, lns).err # "nil"
       THEN /\ entry' = entryParse(entry, lns).e
            /\ err' = entryParse(entry, lns).err
            /\ op' = "log.Fatal"
            /\ UNCHANGED <<lns, entries>>
       ELSE /\ entry' = IF 0 < Len(lns) THEN entryParse(entry, lns).e ELSE entry
            /\ entries' = IF 0 < Len(lns) THEN Append(entries, entry') ELSE entries
            /\ lns' = IF IsDigit(scanned(pos + 1)[1]) THEN <<scanned(pos + 1)>> ELSE <<>>
            /\ err' = "nil"
            /\ op' = "j.parse"
    /\ UNCHANGED <<crf, edits, ferr, t, fields, cap, origin, enc, rec, pre, out, lines,
                   cfg, input, ts, logged, written>>

(* The scanner is at the end of the input: the current entry, if any, is   *)
(* parsed and appended, and ledgerJournal.parse returns.                   *)
EndOfInput ==
    /\ op \in {"init", "j.parse"}
    /\ pos = Len(input)
    /\ IF 0 < Len(lns) /\ entryParse(entry, lns).err # "nil"
       THEN /\ entry' = entryParse(entry, lns).e
            /\ err' = entryParse(entry, lns).err
            /\ op' = "log.Fatal"
            /\ UNCHANGED entries
       ELSE /\ entry' = IF 0 < Len(lns) THEN entryParse(entry, lns).e ELSE entry
            /\ entries' = IF 0 < Len(lns) THEN Append(entries, entry') ELSE entries
            /\ err' = "nil"
            /\ op' = "j.parsed"
    /\ UNCHANGED <<crf, edits, ferr, t, fields, cap, origin, enc, rec, pre, out, lines,
                   cfg, input, pos, ts, logged, lns, written>>

Demirror ==
    /\ op = "j.parsed"
    /\ entries' = demirror(entries)
    /\ op' = "j.demirror"
    /\ UNCHANGED <<crf, edits, ferr, lines, cfg, input, pos, ts, logged, lns, entry,
                   written>>
    /\ UNCHANGED csvVars

Sort ==
    /\ op = "j.demirror"
    /\ entries' = sort(entries)
    /\ op' = "j.sort"
    /\ UNCHANGED <<crf, edits, ferr, lines, cfg, input, pos, ts, logged, lns, entry,
                   written>>
    /\ UNCHANGED csvVars

(* The loop of main that writes every entry of the journal *)
WriteEntries ==
    /\ op = "j.sort"
    /\ written' = [i \in 1..Len(entries) |-> string(entries[i])]
    /\ op' = "main"
    /\ UNCHANGED <<crf, edits, ferr, lines, cfg, input, pos, ts, logged, lns, entry,
                   entries>>
    /\ UNCHANGED csvVars

NextMrglent ==
    \/ ScanLine
    \/ EndOfInput
    \/ Demirror
    \/ Sort
    \/ WriteEntries

SpecMrglent == InitMrglent /\ [][NextMrglent]_vars

-----------------------------------------------------------------------------
(* Claims about CSVRecordFormat.Validate, checked under SpecFormat *)

Validated == ferr # "none"

NFieldsInRange == minNFields <= crf.NFields /\ crf.NFields <= maxNFields

SomeCollision == \E r1, r2 \in IndexRoles : r1 # r2 /\ crf[r1] = crf[r2] /\ crf[r1] # 0

SomeOutOfRange == \E r \in IndexRoles : crf[r] > crf.NFields

(* C3: whenever two of the nine role indexes (currency included) are equal *)
(* and non-zero, Validate fails with the index-collision error.  Stated    *)
(* for formats whose field count is in range and whose indexes are all     *)
(* within it, so that no earlier check of Validate answers first.          *)
C3_CollisionRejected ==
    (Validated /\ NFieldsInRange /\ ~SomeOutOfRange /\ SomeCollision)
        => ferr = "errIndexUnique"

(* C4: whenever one of the nine role indexes (currency included) exceeds   *)
(* NFields, Validate fails with the index-range error.  Stated for formats *)
(* whose field count is in range and whose indexes do not collide, so that *)
(* no earlier check of Validate answers first.                             *)
C4_OutOfRangeRejected ==
    (Validated /\ NFieldsInRange /\ ~SomeCollision /\ SomeOutOfRange)
        => ferr = "errIndexRange"

(* C5: a format whose date index or memo index is zero is rejected by      *)
(* Validate, whatever its other fields hold.                               *)
C5_MandatoryRoles ==
    (Validated /\ (crf.DateI = 0 \/ crf.MemoI = 0)) => ferr # "nil"

(* C5 witness: a format that lacks only the memo index has been validated  *)
(* and rejected for it.                                                    *)
C5_Witness ==
    /\ Validated
    /\ crf.MemoI = 0
    /\ crf.DateI # 0
    /\ ferr = "errMemoI"

(* The role indexes that Validate looks at: all but the currency index *)
CheckedRoles == IndexRoles \ {"CurrencyI"}

(* One of the checked indexes exceeds NFields, or two of them are equal    *)
(* and non-zero                                                            *)
IndexDefect ==
    \/ \E r \in CheckedRoles : crf[r] > crf.NFields
    \/ \E r1, r2 \in CheckedRoles : r1 # r2 /\ crf[r1] = crf[r2] /\ crf[r1] # 0

NoAmountRole == crf.AmountI = 0 /\ (crf.CreditI = 0 \/ crf.DebitI = 0)

BadDateLayout == formatDateOnly(timeParse(crf.DateLayout, crf.DateLayout)) # DateOnly

-----------------------------------------------------------------------------
(* Claims about the CSV transcoder and the amount parser, under SpecCSV *)

(* The text of the field with index i of record r: empty for index zero *)
FieldOf(r, i) == IF i = 0 THEN EmptyText ELSE r[i]

AmountText == FieldOf(rec, crf.AmountI)
CreditText == FieldOf(rec, crf.CreditI)
DebitText == FieldOf(rec, crf.DebitI)

(* The last call of ParseCSV got as far as resolving the amount *)
AmountResolved ==
    /\ op = "ParseCSV"
    /\ Len(rec) = crf.NFields
    /\ ParseDate(rec[crf.DateI], crf.DateLayout).err = "nil"

AmountErrors == {"errSyntax", "errPositiveNumber", "errCreditDebit", "errAmount"}

(* The decimal that text s holds once the format's punctuation is removed *)
Holds(s) == parseFloat(depunctAmount(s, crf.AmountPuncts))

HoldsPositive(s) == Holds(s).err = "nil" /\ Holds(s).v.m > 0

(* C1: a record whose debit field holds a positive decimal v and whose     *)
(* credit and amount fields are empty resolves to the amount -v; one whose *)
(* credit field holds v and whose debit and amount fields are empty        *)
(* resolves to +v.                                                         *)
C1_AmountSignLaw ==
    AmountResolved =>
        /\ (AmountText = EmptyText /\ CreditText = EmptyText /\ HoldsPositive(DebitText))
              => (err \notin AmountErrors /\ t.Amount = Neg(Holds(DebitText).v))
        /\ (AmountText = EmptyText /\ DebitText = EmptyText /\ HoldsPositive(CreditText))
              => (err \notin AmountErrors /\ t.Amount = Holds(CreditText).v)

(* C1 witness: a debit-only record has been decoded to a negative amount *)
C1_Witness ==
    /\ AmountResolved
    /\ AmountText = EmptyText
    /\ CreditText = EmptyText
    /\ HoldsPositive(DebitText)
    /\ err = "nil"
    /\ t.Amount.m < 0

BothOrNeither ==
    \/ (CreditText # EmptyText /\ DebitText # EmptyText)
    \/ (CreditText = EmptyText /\ DebitText = EmptyText)

(* C2 as claimed: amount resolution fails for every record whose credit    *)
(* and debit texts are both non-empty, and for every record in which both  *)
(* are empty.                                                              *)
C2_BothOrNeitherFails ==
    (AmountResolved /\ BothOrNeither) => err \in AmountErrors

(* C2 as amended: amount resolution fails with the credit/debit error for  *)
(* every record whose amount text is empty and whose credit and debit      *)
(* texts are both non-empty or both empty.                                 *)
C2_BothOrNeitherFailsWithoutAmount ==
    (AmountResolved /\ AmountText = EmptyText /\ BothOrNeither) => err = "errCreditDebit"

(* C2 witness: a record with no amount text and with both a credit and a   *)
(* debit text has been refused.                                            *)
C2_Witness ==
    /\ AmountResolved
    /\ AmountText = EmptyText
    /\ CreditText # EmptyText
    /\ DebitText # EmptyText
    /\ err = "errCreditDebit"

(* C12: whenever the amount field is non-empty the amount is parsed from   *)
(* it as a signed decimal, whatever the credit and debit fields hold: a    *)
(* non-zero decimal of either sign is the resolved amount, and any other   *)
(* text fails as a malformed or a zero amount, never by the credit/debit   *)
(* rules.                                                                  *)
C12_AmountPrecedence ==
    (AmountResolved /\ AmountText # EmptyText) =>
        IF Holds(AmountText).err = "nil" /\ Holds(AmountText).v.m # 0
        THEN err \notin AmountErrors /\ t.Amount = Holds(AmountText).v
        ELSE err \in {"errSyntax", "errAmount"}

(* C12 witness: a record with a negative amount text and with a credit     *)
(* text alone has been decoded to the negative amount.                     *)
C12_Witness ==
    /\ AmountResolved
    /\ AmountText # EmptyText
    /\ CreditText # EmptyText
    /\ DebitText = EmptyText
    /\ err \notin AmountErrors
    /\ t.Amount.m < 0
    /\ t.Amount = Holds(AmountText).v

(* The amount text is empty and exactly one of the credit and debit texts  *)
(* is not                                                                  *)
OneSided ==
    /\ AmountText = EmptyText
    /\ \/ (CreditText # EmptyText /\ DebitText = EmptyText)
       \/ (DebitText # EmptyText /\ CreditText = EmptyText)

SideText == IF CreditText # EmptyText THEN CreditText ELSE DebitText

(* C13: when the amount is resolved from the credit field alone or the     *)
(* debit field alone and that field holds a decimal that is zero or        *)
(* negative, the decode fails with the not-positive error and the          *)
(* transaction's amount is left zero.                                      *)
C13_NotPositiveRejected ==
    (AmountResolved /\ OneSided /\ Holds(SideText).err = "nil" /\ Holds(SideText).v.m <= 0)
        => (err = "errPositiveNumber" /\ t.Amount = Zero)

(* C13 witness: a record with a zero credit alone has been refused as not  *)
(* positive.                                                               *)
C13_Witness ==
    /\ AmountResolved
    /\ OneSided
    /\ CreditText # EmptyText
    /\ Holds(CreditText).err = "nil"
    /\ Holds(CreditText).v.m = 0
    /\ err = "errPositiveNumber"

(* C14: ParseCSV fails whenever the resolved amount is exactly zero: an    *)
(* amount text that holds zero is refused with the zero-amount error, and  *)
(* no transaction left by a successful ParseCSV has amount 0.              *)
C14_ZeroAmountRejected ==
    /\ (op = "ParseCSV" /\ err = "nil") => t.Amount.m # 0
    /\ (AmountResolved /\ AmountText # EmptyText
           /\ Holds(AmountText).err = "nil" /\ Holds(AmountText).v.m = 0)
          => err = "errAmount"

(* C14 witness: a record whose amount text holds zero has been refused     *)
(* with the zero-amount error.                                             *)
C14_Witness ==
    /\ AmountResolved
    /\ AmountText # EmptyText
    /\ Holds(AmountText).err = "nil"
    /\ Holds(AmountText).v.m = 0
    /\ err = "errAmount"
    /\ t.Amount = Zero

(* The last call of ParseCSV got as far as its switch on this account *)
ThisAccountReached ==
    /\ AmountResolved
    /\ parseAmount(<<EmptyText>> \o rec, crf).err = "nil"
    /\ rec[crf.MemoI] # EmptyText

ThisAccountText == FieldOf(rec, crf.ThisAccountI)

(* Texts a this-account column may hold *)
ColumnTexts == {EmptyText, Abc, Xyz, DefaultOtherAccount}

(* Record rec with text v in its this-account column *)
WithThisAccount(v) == [rec EXCEPT ![crf.ThisAccountI] = v]

(* The last call of ParseCSV, had the this-account column held v, would    *)
(* have returned the same error and left the same transaction              *)
SameOutcomeWith(v) == ParseCSV(pre, WithThisAccount(v), crf) = Returns(t, err)

(* C15 as claimed: if this account is non-empty before ParseCSV is called, *)
(* the call keeps it and its outcome does not depend on the content of the *)
(* this-account column; if this account is empty before the call and the   *)
(* column is empty, ParseCSV fails.                                        *)
C15_ThisAccountOverride ==
    ThisAccountReached =>
        /\ (pre.ThisAccount # EmptyText /\ crf.ThisAccountI # 0) =>
               /\ t.ThisAccount = pre.ThisAccount
               /\ \A v \in ColumnTexts : SameOutcomeWith(v)
        /\ (pre.ThisAccount = EmptyText /\ ThisAccountText = EmptyText) => err # "nil"

(* C15 as amended: the outcome does not depend on the content of the       *)
(* column as long as the column does not hold "Imbalance"; a column that   *)
(* holds "Imbalance" makes ParseCSV fail with the this-account error,      *)
(* this account kept as it was.                                            *)
C15_ThisAccountOverrideUnlessImbalance ==
    ThisAccountReached =>
        /\ (pre.ThisAccount # EmptyText /\ crf.ThisAccountI # 0) =>
               /\ t.ThisAccount = pre.ThisAccount
               /\ IF ThisAccountText = DefaultOtherAccount
                  THEN err = "errThisAccount"
                  ELSE \A v \in ColumnTexts \ {DefaultOtherAccount} : SameOutcomeWith(v)
        /\ (pre.ThisAccount = EmptyText /\ ThisAccountText = EmptyText)
               => err = "errThisAccount"

(* C15 witness: a record that names a this account has been decoded into a *)
(* transaction that came with another, which it keeps.                     *)
C15_Witness ==
    /\ ThisAccountReached
    /\ pre.ThisAccount = Kb
    /\ ThisAccountText = Abc
    /\ err = "nil"
    /\ t.ThisAccount = Kb

(* This account before the call, or the this-account column, holds         *)
(* "Imbalance"                                                             *)
SomeImbalance ==
    \/ pre.ThisAccount = DefaultOtherAccount
    \/ ThisAccountText = DefaultOtherAccount

(* C16: ParseCSV fails whenever this account before the call or the        *)
(* this-account column equals "Imbalance", with the this-account error     *)
(* when no earlier field of the record is refused first; no transaction    *)
(* left by a successful ParseCSV has this account "Imbalance".             *)
C16_ImbalanceRejected ==
    /\ (op = "ParseCSV" /\ Len(rec) = crf.NFields /\ SomeImbalance) => err # "nil"
    /\ (ThisAccountReached /\ SomeImbalance) => err = "errThisAccount"
    /\ (op = "ParseCSV" /\ err = "nil") => t.ThisAccount # DefaultOtherAccount

(* C16 witness: a record whose this-account column holds "Imbalance" has   *)
(* been refused with the this-account error, this account left empty.      *)
C16_Witness ==
    /\ ThisAccountReached
    /\ pre.ThisAccount = EmptyText
    /\ ThisAccountText = DefaultOtherAccount
    /\ err = "errThisAccount"
    /\ t.ThisAccount = EmptyText

(* The last call of ParseCSV got as far as the currency *)
CurrencyReached ==
    /\ AmountResolved
    /\ parseAmount(<<EmptyText>> \o rec, crf).err = "nil"

CurrencyText == FieldOf(rec, crf.CurrencyI)

(* C17: a transaction that carries a non-empty currency before ParseCSV is *)
(* called keeps it whatever the currency column holds; otherwise the       *)
(* currency is the text of the currency column, the empty string when      *)
(* CurrencyI is 0.                                                         *)
C17_CurrencyOverride ==
    CurrencyReached =>
        /\ pre.Currency # EmptyText => t.Currency = pre.Currency
        /\ (pre.Currency = EmptyText /\ crf.CurrencyI # 0) => t.Currency = rec[crf.CurrencyI]
        /\ (pre.Currency = EmptyText /\ crf.CurrencyI = 0) => t.Currency = EmptyText

(* C17 witness: a record with currency "NZD" has been decoded into a       *)
(* transaction that came with currency "USD", which it keeps.              *)
C17_Witness ==
    /\ CurrencyReached
    /\ pre.Currency = Usd
    /\ CurrencyText = Nzd
    /\ err = "nil"
    /\ t.Currency = Usd

(* The transaction handed to the last call was empty but, possibly, for    *)
(* its this account                                                        *)
PreEmptyButThisAccount == [pre EXCEPT !.ThisAccount = EmptyText] = EmptyTransaction

(* C18: every transaction left by a successful ParseCSV into an empty      *)
(* Transaction, with or without a this account set beforehand, under a     *)
(* format that Validate accepts, is valid: its amount is not 0, its date   *)
(* is a YYYY-MM-DD date, its memo and both accounts are non-empty and the  *)
(* accounts differ.                                                        *)
C18_DecodedIsValid ==
    (op = "ParseCSV" /\ err = "nil" /\ ferr = "nil" /\ PreEmptyButThisAccount)
        => ValidateTransaction(t) = "nil"

(* The number of occurrences of character c in text s *)
Count(s, c) == Len(SelectSeq(s, LAMBDA b : b = c))

ThisAccountDefect ==
    \/ SomeImbalance
    \/ (pre.ThisAccount = EmptyText /\ ThisAccountText = EmptyText)

(* C26: ParseCSV returns the error of the earliest failing step in the     *)
(* order: field count, date, amount, memo, this account; a record with     *)
(* several defects yields the error of the earliest, and a record with     *)
(* none is decoded.                                                        *)
C26_FirstErrorOrder ==
    op = "ParseCSV" =>
        CASE Len(rec) # crf.NFields                             -> err = "errNFields"
          [] ParseDate(rec[crf.DateI], crf.DateLayout).err # "nil" -> err = "errParseDate"
          [] parseAmount(<<EmptyText>> \o rec, crf).err # "nil"   -> err \in AmountErrors
          [] rec[crf.MemoI] = EmptyText                           -> err = "errMemo"
          [] ThisAccountDefect                                    -> err = "errThisAccount"
          [] OTHER                                                -> err = "nil"

(* C26 witness: a record with a date that does not parse, a zero amount,   *)
(* no memo and no this account has been refused for its date.              *)
C26_Witness ==
    /\ op = "ParseCSV"
    /\ Len(rec) = crf.NFields
    /\ ParseDate(rec[crf.DateI], crf.DateLayout).err # "nil"
    /\ parseAmount(<<EmptyText>> \o rec, crf).err = "errAmount"
    /\ rec[crf.MemoI] = EmptyText
    /\ ThisAccountDefect
    /\ err = "errParseDate"

(* The record that the CSV rendering of transaction tr splits into *)
RecordOf(tr) == Split(TrimRight(StringModuleCSV(tr), "\n"), ",")

(* C6: for every valid transaction, splitting its CSV rendering on commas  *)
(* and decoding that into an empty Transaction under the module's format   *)
(* succeeds and gives back the transaction, field for field.               *)
C6_RoundTrip ==
    (/\ op = "ParseCSV"
     /\ origin = "split"
     /\ pre = EmptyTransaction
     /\ crf = GetModuleCSVFormat
     /\ IsValid(enc)
     /\ rec = RecordOf(enc))
        => (err = "nil" /\ t = enc)

(* The transaction in hand was decoded from record rec, a record of the    *)
(* module's format that names its other account, into an empty Transaction *)
DecodedCanonical ==
    /\ rec # <<>>
    /\ err = "nil"
    /\ pre = EmptyTransaction
    /\ crf = GetModuleCSVFormat
    /\ rec[crf.OtherAccountI] # EmptyText

(* C7: the CSV rendering of a transaction decoded from a canonical record  *)
(* is that record's fields joined by commas and one newline, the amount    *)
(* text reproduced as given.                                               *)
C7_DecodeEncode ==
    (op = "StringModuleCSV" /\ DecodedCanonical)
        => out = Join(rec, <<",">>) \o <<"\n">>

-----------------------------------------------------------------------------
(* Claims about StringLedger, under SpecCSV *)

(* C8: a (valid) transaction without code and currency is rendered as the  *)
(* date, a space, the memo; two spaces, this account, two spaces, the      *)
(* amount; two spaces, the other account; each line ended by a newline.    *)
C8_LedgerTwoSpaceIndent ==
    (op = "StringLedger" /\ IsValid(enc) /\ enc.Code = EmptyText /\ enc.Currency = EmptyText)
        => out = enc.Date \o <<" ">> \o enc.Memo \o <<"\n">>
                 \o <<" ", " ">> \o enc.ThisAccount \o <<" ", " ">>
                 \o stringAmount(enc.Amount) \o <<"\n">>
                 \o <<" ", " ">> \o enc.OtherAccount \o <<"\n">>

PrintedAmount == Drop(Split(out, "\n")[2], 1 + Len(enc.ThisAccount) + 2)

(* C20: StringLedger prints the amount of a transaction with an empty      *)
(* currency with no prefix or suffix; with currency "$" the sign is put    *)
(* directly before the numeral, no space between; with any other currency  *)
(* the currency follows the numeral after exactly one space.               *)
C20_CurrencyPlacement ==
    op = "StringLedger" =>
        /\ enc.Currency = EmptyText => PrintedAmount = stringAmount(enc.Amount)
        /\ enc.Currency = Dollar => PrintedAmount = <<"$">> \o stringAmount(enc.Amount)
        /\ enc.Currency \notin {EmptyText, Dollar}
              => PrintedAmount = stringAmount(enc.Amount) \o <<" ">> \o enc.Currency

(* C20 witness: a negative amount in "$" has been rendered with the sign   *)
(* of the currency before the numeral.                                     *)
C20_Witness ==
    /\ op = "StringLedger"
    /\ enc.Currency = Dollar
    /\ enc.Amount.m < 0
    /\ PrintedAmount = <<"$", "-", "1", ".", "2", "3">>

(* Code c without its opening bracket and without its closing bracket, if *)
(* it has them                                                             *)
Unwrapped(c) ==
    LET u == IF c # <<>> /\ c[1] = "(" THEN Tail(c) ELSE c
    IN IF u # <<>> /\ u[Len(u)] = ")" THEN SubSeq(u, 1, Len(u) - 1) ELSE u

(* C21: for every non-empty code the first line of the journal entry holds *)
(* the code in exactly one pair of brackets, whether the code is stored    *)
(* with both brackets, with the opening one, with the closing one or with  *)
(* none; for an empty code there is only the single space between the date *)
(* and the memo.                                                           *)
C21_CodeBrackets ==
    op = "StringLedger" =>
        Split(out, "\n")[1] =
            enc.Date
            \o (IF enc.Code = EmptyText THEN EmptyText
                ELSE <<" ", "(">> \o Unwrapped(enc.Code) \o <<")">>)
            \o <<" ">> \o enc.Memo

(* C21 witness: a code stored with its opening bracket only has been       *)
(* rendered in one pair of brackets.                                       *)
C21_Witness ==
    /\ op = "StringLedger"
    /\ enc.Code = <<"(", "A", "P">>
    /\ enc.Memo = Transfer
    /\ Split(out, "\n")[1] = enc.Date \o <<" ", "(", "A", "P", ")", " ">> \o Transfer

-----------------------------------------------------------------------------
(* Claims about ParseLedger, under SpecLedger *)

(* The tokens of the first line of the entry *)
Tokens == Fields(lines[1])

(* The last call of ParseLedger succeeded on a first line whose token 1,   *)
(* the one after the date, is a status mark                                *)
ParsedAfterMark ==
    /\ op = "ParseLedger"
    /\ err = "nil"
    /\ Len(Tokens) >= 2
    /\ isStatusMark(Tokens[2])

(* The memo and the code come from the tokens after the mark, or are left  *)
(* as they were                                                            *)
MarkSkipped ==
    /\ \/ t.Memo = pre.Memo
       \/ \E k \in 3..Len(Tokens) : t.Memo = Join(SubSeq(Tokens, k, Len(Tokens)), <<" ">>)
    /\ \/ t.Code = pre.Code
       \/ Len(Tokens) >= 3 /\ t.Code = getCode(Tokens[3])

(* C10: whenever token 1 of the first line is a status mark it is skipped: *)
(* it becomes no part of the memo or of the code, and the candidate code   *)
(* is token 2 if there is one.                                             *)
C10_StatusMarkSkipped == ParsedAfterMark => MarkSkipped

(* The last call of ParseLedger succeeded on a first line that has a        *)
(* candidate token: token 1, or token 2 when token 1 is a status mark      *)
ParsedCandidate ==
    /\ op = "ParseLedger"
    /\ err = "nil"
    /\ Len(Tokens) >= 2
    /\ (isStatusMark(Tokens[2]) => Len(Tokens) >= 3)

(* The position in Tokens of the candidate token *)
CandidateAt == IF isStatusMark(Tokens[2]) THEN 3 ELSE 2

Candidate == Tokens[CandidateAt]

AfterCandidate == SubSeq(Tokens, CandidateAt + 1, Len(Tokens))

(* s is at least 3 characters long, starts with "(" and ends with ")" *)
Bracketed(s) == Len(s) >= 3 /\ s[1] = "(" /\ s[Len(s)] = ")"

-----------------------------------------------------------------------------
(* Claims about program translate, under SpecTranslate *)

(* The date that a written transaction starts with, in either format *)
WrittenDate(w) == SubSeq(w, 1, Len(DateOnly))

(* C23: translate writes its transactions ordered by date ascending: for   *)
(* every sequence of decoded transactions, the dates of the sequence that  *)
(* stringTransactions writes never decrease.                               *)
C23_WrittenByDate ==
    op = "stringTransactions" =>
        \A i \in 1..(Len(written) - 1) :
            ~Less(WrittenDate(written[i + 1]), WrittenDate(written[i]))

(* Record k of the statement decoded on its own, into a Transaction that   *)
(* holds only what the flags set                                           *)
Alone(k) == ParseCSV(NewTransaction, input[k], crf)

(* The transactions of those of the first k records that decode on their   *)
(* own, in the order of the statement                                      *)
RECURSIVE DecodedAlone(_)
DecodedAlone(k) ==
    IF k = 0 THEN <<>>
    ELSE IF Alone(k).err = "nil" THEN Append(DecodedAlone(k - 1), Alone(k).t)
    ELSE DecodedAlone(k - 1)

(* The errors of those of the first k records that do not, with the        *)
(* records' numbers                                                        *)
RECURSIVE RefusedAlone(_)
RefusedAlone(k) ==
    IF k = 0 THEN <<>>
    ELSE IF Alone(k).err # "nil"
         THEN Append(RefusedAlone(k - 1), [line |-> k, err |-> Alone(k).err])
    ELSE RefusedAlone(k - 1)

(* C25: in the loop of parseCSVStatement a record whose ParseCSV fails is  *)
(* logged and skipped and the loop goes on: after any number of records    *)
(* the list of transactions is exactly the records that decode, in input   *)
(* order, each as it decodes on its own whatever failed before it, and     *)
(* every other record has been logged; nothing is written before the last *)
(* record of the statement has been read.                                  *)
C25_RecordsIndependent ==
    /\ op \in {"parseCSVStatement", "stringTransactions"} =>
           /\ ts = DecodedAlone(pos)
           /\ logged = RefusedAlone(pos)
    /\ op = "stringTransactions" => pos = Len(input)

(* C25 witness: the first record of a statement has been refused and the   *)
(* two after it have been decoded.                                         *)
C25_Witness ==
    /\ op = "parseCSVStatement"
    /\ pos = 3
    /\ Len(logged) = 1
    /\ logged[1].line = 1
    /\ Len(ts) = 2
    /\ ts = <<Alone(2).t, Alone(3).t>>

(* C27: ParseCSV never modifies the record it is handed: after the call    *)
(* every element of the caller's slice has the value it had before the     *)
(* call, whatever the spare capacity of the slice.                         *)
C27_RecordUnchanged ==
    op = "parseCSVStatement" => fields = rec

-----------------------------------------------------------------------------
(* Claims about program mrglent, checked under SpecMrglent *)

(* The entries of a journal, each with its lines: an entry starts at a     *)
(* line that starts with a digit and holds the indented lines after it     *)
RECURSIVE JournalEntries(_, _, _)
JournalEntries(ls, cur, acc) ==
    IF ls = <<>> THEN (IF cur = <<>> THEN acc ELSE Append(acc, cur))
    ELSE IF cur # <<>> /\ (Head(ls) \o <<"\n">>)[1] \in {" ", "\t"}
    THEN JournalEntries(Tail(ls), Append(cur, Head(ls) \o <<"\n">>), acc)
    ELSE IF IsDigit((Head(ls) \o <<"\n">>)[1])
    THEN JournalEntries(Tail(ls), <<Head(ls) \o <<"\n">>>>, IF cur = <<>> THEN acc ELSE Append(acc, cur))
    ELSE JournalEntries(Tail(ls), <<>>, IF cur = <<>> THEN acc ELSE Append(acc, cur))

(* The code, memo and date on the first line of an entry *)
CodeOf(ls) == ParseLedger(EmptyTransaction, ls).t.Code
MemoOf(ls) == ParseLedger(EmptyTransaction, ls).t.Memo
DateOf(ls) == ParseLedger(EmptyTransaction, ls).t.Date

RECURSIVE NotMarked(_)
NotMarked(es) ==
    IF es = <<>> THEN <<>>
    ELSE IF CodeOf(Head(es)) = Mt THEN NotMarked(Tail(es))
    ELSE <<Head(es)>> \o NotMarked(Tail(es))

(* e put into q, which is in date order, after every entry of q that is    *)
(* not of a later date                                                     *)
RECURSIVE PutByDate(_, _)
PutByDate(q, e) ==
    IF q = <<>> THEN <<e>>
    ELSE IF Less(DateOf(e), DateOf(Head(q))) THEN <<e>> \o q
    ELSE <<Head(q)>> \o PutByDate(Tail(q), e)

RECURSIVE ByDate(_)
ByDate(es) ==
    IF es = <<>> THEN <<>>
    ELSE PutByDate(ByDate(SubSeq(es, 1, Len(es) - 1)), es[Len(es)])

(* C24: what mrglent writes is the entries of the input journal whose code *)
(* is not "MT", each once and with all its lines, by date ascending and,   *)
(* within a date, in the order of the input.                               *)
C24_OutputIsUnmarkedByDate ==
    op = "main" =>
        Flatten(written) =
            Flatten(Flatten(ByDate(NotMarked(JournalEntries(input, <<>>, <<>>)))))

(* C29: after ledgerJournal.parse every entry of the journal has the code  *)
(* and the memo of its own first line; nothing of an earlier entry is left *)
(* in an entry whose first line has no code or no memo.                    *)
C29_NoCarryOver ==
    op = "j.parsed" =>
        \A i \in 1..Len(entries) :
            /\ entries[i].Trn.Code = CodeOf(entries[i].Lines)
            /\ entries[i].Trn.Memo = MemoOf(entries[i].Lines)

-----------------------------------------------------------------------------
(* Claims about a validated format in use, checked under SpecUse *)

(* C28: under a format that Validate has accepted, ParseCSV of a record    *)
(* with exactly NFields fields reads no position beyond the record.        *)
C28_NoOutOfRange ==
    (op = "ParseCSV" /\ ferr = "nil") => err # "panic"

-----------------------------------------------------------------------------
(* Claims about repeated decoding, checked under SpecRepeat *)

(* C30: whatever records were decoded into a Transaction before, when the  *)
(* last ParseCSV returned an error the Transaction is not valid.           *)
C30_ErrorLeavesInvalid ==
    (op = "ParseCSV" /\ err # "nil") => ~IsValid(t)

====
